---- MODULE Spec2Model ----
(***************************************************************************)
(* Episode monitoring pipeline of lastanime-backend.                       *)
(*                                                                         *)
(*   Spec       the monitoring service (monitoring-service.js) driving     *)
(*              scrapeEpisode (scraper.js) against the Supabase store:     *)
(*              startMonitoring / stopMonitoring / pollHomepage, the card  *)
(*              loop, the Dedup Cache and the inter-cycle timer.           *)
(*   FetchSpec  fetchHtmlWithRetry (scraper.js) with the ProxyManager      *)
(*              (proxy-manager.js), one GET attempt per step.              *)
(*   PoolSpec   the ProxyManager alone: getNextProxy and markProxyAsFailed  *)
(*              called in any order.                                       *)
(*   IngestSpec the ingestions of a card by scrapeEpisode (scraper.js,     *)
(*              supabase-client.js) and by the standalone monitor          *)
(*              (monitor.js, supabase-helpers.js), one gateway call per    *)
(*              step, interleaved.                                         *)
(*   SoloSpec   the same ingestions, one after the other.                  *)
(*   ParserSpec the functions that compute from their input alone:         *)
(*              parseEpisodeCode, the homepage extractors and filters,     *)
(*              the series resolution of an episode page, the enrichment.  *)
(*                                                                         *)
(* Node runs one callback at a time: every action below is the code that   *)
(* runs between two awaits (or the whole of a synchronous API call).       *)
(***************************************************************************)
EXTENDS Integers, Sequences, FiniteSets, TLC

(***************************************************************************)
(* Bounds                                                                  *)
(***************************************************************************)
\* pollHomepage activations alive at once (a running cycle or its pending timer)
MaxChains == 2
\* distinct episode cards the homepage can list
NumCards == 2
\* length of CONFIG.proxy.list
MaxProxies == 2
\* the retries argument of fetchHtmlWithRetry
MaxRetries == 2
\* CONFIG.monitoring.maxLatestEpisodes, the size of the latest window
MaxLatest == 1
\* ingestions begun in one behaviour
MaxIngestions == 3
\* characters of a URL given to parseEpisodeCode
MaxUrlLen == 5
\* anchors of a homepage document
MaxAnchors == 3

Chains == 1..MaxChains
Cards == 1..NumCards

VARIABLES
  isRunning,          \* part_000:6   let isRunning = false
  pollTimeout,        \* part_000:7   let pollTimeout = null; {} is null, {ch} the handle armed by chain ch
  processedEpisodes,  \* part_000:5   the Dedup Cache, a Set of episode keys
  chains,             \* the activations of pollHomepage: position, current card, cards still to visit
  episodes,           \* table episodes: the (series_slug, season, episode) keys that have a row
  lastEvent,          \* history: what the last step did (the API call, what a fetch or scrape returned)
  audit,              \* whether this behaviour keeps the three histories below (never changes)
  persistFailed,      \* history: cards whose attempt failed in a gateway call and that every
                      \*          homepage fetched since has listed
  missed,             \* history: the cards of persistFailed the last step passed over
  proxies,            \* monitor.js:253  this.proxies = CONFIG.proxy.list
  currentIndex,       \* monitor.js:254  this.currentIndex
  failedProxies,      \* monitor.js:255  this.failedProxies, the quarantine set
  fetch,              \* the running call of fetchHtmlWithRetry: position, locals, what it returned
  store,              \* the tables series, episodes and latest_episodes with their rows' contents
  workers,            \* two ingestions of a card: who runs it, its position, its locals
  standaloneProcessed,\* monitor.js:17  the Dedup Cache of the standalone monitor
  solo,               \* whether ingestions run one after the other in this behaviour (never changes)
  probe,              \* one call of a parser function: its input, and its result once it has returned
  ledger              \* history: series pages fetched, the latest entry written last, ingestions
                      \*          begun, and what the last step returned to its caller and logged

schedVars == <<isRunning, pollTimeout, processedEpisodes, chains, episodes, lastEvent,
               audit, persistFailed, missed>>

fetchVars == <<proxies, currentIndex, failedProxies, fetch>>

ingestVars == <<store, workers, standaloneProcessed, solo, ledger, probe>>

\* what an ingestion leaves alone of the monitoring service and of the parsers
cycleVars == <<isRunning, pollTimeout, chains, episodes, lastEvent, audit, persistFailed, missed,
               probe>>

vars == <<schedVars, fetchVars, ingestVars>>

auditVars == <<audit, persistFailed, missed>>

(***************************************************************************)
(* Cards.  A card is a homepage link that passed filterRelevantEpisodes,   *)
(* so its URL holds /episode/ and a <digits>x<digits> code.  Card c is     *)
(* .../episode/<slug>-1x<c>/ ; card 1 belongs to series "foo", the others  *)
(* to series "bar".                                                        *)
(***************************************************************************)
SlugOf(c) == IF c = 1 THEN "foo" ELSE "bar"

parseEpisodeCode(c) == [season |-> 1, episode |-> c]

createEpisodeKey(c) == <<SlugOf(c), parseEpisodeCode(c).season, parseEpisodeCode(c).episode>>

\* The key of the episodes / latest_episodes row scrapeEpisode writes for a card.
EpisodeRow(c) == <<SlugOf(c), parseEpisodeCode(c).season, parseEpisodeCode(c).episode>>

\* Card lists a homepage fetch can yield: extractHomepageEpisodeCards keeps one
\* card per URL, in document order.
HomepageLists ==
  { s \in UNION { [1..n -> Cards] : n \in 0..NumCards } :
      \A i, j \in DOMAIN s : i < j => s[i] < s[j] }

Range(s) == { s[i] : i \in DOMAIN s }

(***************************************************************************)
(* Chains                                                                  *)
(***************************************************************************)
\* A slot no activation of pollHomepage occupies (cur 0: no card).
FreeChain == [pc |-> "free", cur |-> 0, rest |-> <<>>, stopSeen |-> FALSE]

LoopPcs == {"scrape", "cardDelay"}
ActivePcs == LoopPcs \cup {"fetchHome"}

Quiet == [call |-> "none", result |-> "none"]

InitState ==
  /\ isRunning = FALSE
  /\ pollTimeout = {}
  /\ processedEpisodes = {}
  /\ chains = [ch \in Chains |-> FreeChain]
  /\ episodes = {}
  /\ lastEvent = Quiet
  /\ persistFailed = {}
  /\ missed = {}

NoProxy == "none"

IdleFetch == [pc |-> "idle", retries |-> 0, total |-> 0, i |-> 0, proxy |-> NoProxy,
              lastErr |-> "null", attempts |-> 0, delays |-> 0, errLog |-> "null",
              data |-> "null", ret |-> "null",
              picked |-> NoProxy, poolBefore |-> [index |-> 0, failed |-> {}]]

\* No proxy configured, no fetch call under way.
FetchIdleState ==
  /\ proxies = <<>>
  /\ currentIndex = 0
  /\ failedProxies = {}
  /\ fetch = IdleFetch

Workers == {"a", "b"}

\* The URL of a homepage link under /episode/ that holds no <digits>x<digits>.
NoCodeCard == 0

IdleWorker == [pc |-> "idle", kind |-> "none", force |-> FALSE, card |-> NoCodeCard,
               page |-> "none", existing |-> FALSE, snapshot |-> <<>>]

NoKey == <<>>

NoReturn == [kind |-> "none", card |-> NoCodeCard, result |-> "none", logged |-> FALSE]

\* Empty tables, no ingestion under way.
StoreEmptyState ==
  /\ store = [series |-> <<>>, episodes |-> <<>>, latest |-> <<>>]
  /\ workers = [w \in Workers |-> IdleWorker]
  /\ standaloneProcessed = {}
  /\ ledger = [seriesFetched |-> {}, lastAdded |-> NoKey, ingestions |-> 0,
               returned |-> NoReturn]

\* No parser call is under observation.
NoProbe == [fn |-> "none"]

Init == InitState /\ audit = FALSE /\ FetchIdleState /\ StoreEmptyState /\ solo = FALSE /\ probe = NoProbe

AuditInit == InitState /\ audit = TRUE /\ FetchIdleState /\ StoreEmptyState /\ solo = FALSE /\ probe = NoProbe

\* for (const card of episodeCards) { if (processedEpisodes.has(key)) continue; ...
\* The number of leading cards of `cards` whose key is in the Dedup Cache: the
\* `continue` is synchronous, so the loop passes them over within one step.
\* Variant: the card loop without its look into the Dedup Cache.
CachedPrefixUnchecked(cards, cache) == 0

RECURSIVE CachedPrefix(_, _)
CachedPrefix(cards, cache) ==
  IF cards = <<>> THEN 0
  ELSE IF createEpisodeKey(Head(cards)) \in cache THEN 1 + CachedPrefix(Tail(cards), cache)
  ELSE 0

\* Variant: the tail of pollHomepage arms the timer without looking at isRunning.
ShouldRearmAlways(running) == TRUE

\* if (isRunning) pollTimeout = setTimeout(pollHomepage, pollInterval)
ShouldRearm(running) == running

\* The tail of pollHomepage: arm the next cycle's timer, or let the chain die.
EndCycle(ch) ==
  IF ShouldRearm(isRunning)
  THEN /\ chains' = [chains EXCEPT ![ch] = [FreeChain EXCEPT !.pc = "timer"]]
       /\ pollTimeout' = {ch}
  ELSE /\ chains' = [chains EXCEPT ![ch] = FreeChain]
       /\ UNCHANGED pollTimeout

\* The card loop over the cards still to visit: pass over the cached ones, then
\* start scrapeEpisode on the next card (its detail-page fetch is then in
\* flight) or leave the loop.
LoopOver(ch, cards) ==
  LET k == CachedPrefix(cards, processedEpisodes) IN
  /\ lastEvent' = Quiet
  /\ missed' = IF audit /\ \A o \in Chains \ {ch} : chains[o].pc \notin ActivePcs
                THEN { cards[i] : i \in 1..k } \cap persistFailed
                ELSE {}
  /\ IF k < Len(cards)
     THEN /\ chains' = [chains EXCEPT ![ch] =
                          [@ EXCEPT !.pc = "scrape", !.cur = cards[k + 1],
                                    !.rest = SubSeq(cards, k + 2, Len(cards))]]
          /\ UNCHANGED pollTimeout
     ELSE EndCycle(ch)

\* Variant: startMonitoring without its early return.
StartNeverNoop(running) == FALSE

\* if (isRunning) { warn; return }
StartIsNoop(running) == running

LowestFree == CHOOSE ch \in Chains :
                 /\ chains[ch].pc = "free"
                 /\ \A o \in Chains : chains[o].pc = "free" => ch <= o

StartMonitoring ==
  /\ lastEvent' = [Quiet EXCEPT !.call = "start"]
  /\ missed' = {}
  /\ UNCHANGED <<audit, persistFailed>>
  /\ IF StartIsNoop(isRunning)
     THEN UNCHANGED <<isRunning, pollTimeout, processedEpisodes, chains, episodes>>
     ELSE /\ \E ch \in Chains : chains[ch].pc = "free"
          /\ isRunning' = TRUE
          /\ chains' = [chains EXCEPT ![LowestFree] = [FreeChain EXCEPT !.pc = "fetchHome"]]
          /\ UNCHANGED <<pollTimeout, processedEpisodes, episodes>>
  /\ UNCHANGED <<fetchVars, ingestVars>>

\* if (!isRunning) { warn; return }
StopIsNoop(running) == ~running

\* isRunning = false; if (pollTimeout) { clearTimeout(pollTimeout); pollTimeout = null }
\* clearTimeout on the handle of a timer that has fired does nothing.
StopMonitoring ==
  /\ lastEvent' = [Quiet EXCEPT !.call = "stop"]
  /\ missed' = {}
  /\ UNCHANGED <<processedEpisodes, episodes, audit, persistFailed>>
  /\ IF StopIsNoop(isRunning)
     THEN UNCHANGED <<isRunning, pollTimeout, chains>>
     ELSE /\ isRunning' = FALSE
          /\ pollTimeout' = {}
          /\ chains' = [ch \in Chains |->
                          IF ch \in pollTimeout /\ chains[ch].pc = "timer" THEN FreeChain
                          ELSE IF chains[ch].pc \in LoopPcs
                               THEN [chains[ch] EXCEPT !.stopSeen = audit]
                          ELSE chains[ch]]
  /\ UNCHANGED <<fetchVars, ingestVars>>

\* if (!isRunning) return;
PollGuard(running) == running

TimerFire(ch) ==
  /\ chains[ch].pc = "timer"
  /\ chains' = [chains EXCEPT ![ch] =
                  IF PollGuard(isRunning) THEN [FreeChain EXCEPT !.pc = "fetchHome"] ELSE FreeChain]
  /\ lastEvent' = Quiet
  /\ missed' = {}
  /\ UNCHANGED <<isRunning, pollTimeout, processedEpisodes, episodes, audit, persistFailed>>
  /\ UNCHANGED <<fetchVars, ingestVars>>

HomepageOk(ch, list) ==
  /\ chains[ch].pc = "fetchHome"
  /\ LoopOver(ch, list)
  /\ persistFailed' = persistFailed \cap Range(list)
  /\ UNCHANGED <<isRunning, processedEpisodes, episodes, audit>>
  /\ UNCHANGED <<fetchVars, ingestVars>>

\* Variant: the homepage failure escapes pollHomepage before the timer is armed.
HomepageFailDies(ch) ==
  /\ chains[ch].pc = "fetchHome"
  /\ chains' = [chains EXCEPT ![ch] = FreeChain]
  /\ lastEvent' = [Quiet EXCEPT !.result = "homepageFailed"]
  /\ persistFailed' = {}
  /\ missed' = {}
  /\ UNCHANGED <<isRunning, pollTimeout, processedEpisodes, episodes, audit>>
  /\ UNCHANGED <<fetchVars, ingestVars>>

\* catch (err) { console.error('Error polling homepage') }, then the tail.
HomepageFail(ch) ==
  /\ chains[ch].pc = "fetchHome"
  /\ EndCycle(ch)
  /\ lastEvent' = [Quiet EXCEPT !.result = "homepageFailed"]
  /\ persistFailed' = {}
  /\ missed' = {}
  /\ UNCHANGED <<isRunning, processedEpisodes, episodes, audit>>
  /\ UNCHANGED <<fetchVars, ingestVars>>

(***************************************************************************)
(* scrapeEpisode(card.url, {force: false}) as the card loop runs it.  Its   *)
(* whole body sits in one try/catch that logs and returns null, so it      *)
(* never throws: it returns the saved row, the existing row, or null.      *)
(***************************************************************************)
\* await scrapeEpisode(...); processedEpisodes.add(episodeKey): the add follows
\* every return of scrapeEpisode, whatever it returned.
MarkProcessed(cache, key, result) == cache \cup {key}

\* Variant: a card whose scrape returned null breaks out of the card loop.
CardReturnAborting(ch, result, gatewayFailed) ==
  LET c == chains[ch].cur IN
  /\ processedEpisodes' = MarkProcessed(processedEpisodes, createEpisodeKey(c), result)
  /\ chains' = [chains EXCEPT ![ch] =
                  [@ EXCEPT !.pc = "cardDelay",
                            !.rest = IF result = "null" THEN <<>> ELSE @]]
  /\ persistFailed' = IF audit /\ gatewayFailed THEN persistFailed \cup {c}
                      ELSE IF result # "null" THEN persistFailed \ {c}
                      ELSE persistFailed
  /\ lastEvent' = [Quiet EXCEPT !.result = result]
  /\ missed' = {}
  /\ UNCHANGED <<isRunning, pollTimeout, audit>>
  /\ UNCHANGED <<fetchVars, ingestVars>>

\* Variant: the card loop starts the next card without awaiting the delay.
CardReturnSkipsDelay(ch, result, gatewayFailed) ==
  LET c == chains[ch].cur
      rest == chains[ch].rest
  IN
  /\ processedEpisodes' = MarkProcessed(processedEpisodes, createEpisodeKey(c), result)
  /\ chains' = [chains EXCEPT ![ch] =
                  IF rest = <<>> THEN [@ EXCEPT !.pc = "cardDelay"]
                  ELSE [@ EXCEPT !.cur = Head(rest), !.rest = Tail(rest)]]
  /\ persistFailed' = IF audit /\ gatewayFailed THEN persistFailed \cup {c}
                      ELSE IF result # "null" THEN persistFailed \ {c}
                      ELSE persistFailed
  /\ lastEvent' = [Quiet EXCEPT !.result = result]
  /\ missed' = {}
  /\ UNCHANGED <<isRunning, pollTimeout, audit>>
  /\ UNCHANGED <<fetchVars, ingestVars>>

\* scrapeEpisode returns to the card loop, which marks the key and starts the
\* 500 ms inter-card delay.
CardReturn(ch, result, gatewayFailed) ==
  LET c == chains[ch].cur IN
  /\ processedEpisodes' = MarkProcessed(processedEpisodes, createEpisodeKey(c), result)
  /\ chains' = [chains EXCEPT ![ch] = [@ EXCEPT !.pc = "cardDelay"]]
  /\ persistFailed' = IF audit /\ gatewayFailed THEN persistFailed \cup {c}
                      ELSE IF result # "null" THEN persistFailed \ {c}
                      ELSE persistFailed
  /\ lastEvent' = [Quiet EXCEPT !.result = result]
  /\ missed' = {}
  /\ UNCHANGED <<isRunning, pollTimeout, audit>>
  /\ UNCHANGED <<fetchVars, ingestVars>>

\* fetchHtmlWithRetry(episodeUrl) exhausted its attempts.
ScrapeDetailFail(ch) ==
  /\ chains[ch].pc = "scrape"
  /\ CardReturn(ch, "null", FALSE)
  /\ UNCHANGED episodes

\* The page gives no series link or title by breadcrumb, URL or og:title.
ScrapeUnresolved(ch) ==
  /\ chains[ch].pc = "scrape"
  /\ CardReturn(ch, "null", FALSE)
  /\ UNCHANGED episodes

\* A gateway call threw: getSeriesBySlug, upsertSeries, getEpisode or
\* upsertEpisode (no episode row written), or addToLatestEpisodes after
\* upsertEpisode had written the row.
ScrapeGatewayFail(ch, written) ==
  /\ chains[ch].pc = "scrape"
  /\ episodes' = IF written THEN episodes \cup {EpisodeRow(chains[ch].cur)} ELSE episodes
  /\ CardReturn(ch, "null", TRUE)

\* scrapeEpisode returned a row: the existing one, or the one upsertEpisode
\* wrote (an upsert on the key, so the table holds the key once either way).
ScrapeOk(ch) ==
  /\ chains[ch].pc = "scrape"
  /\ episodes' = episodes \cup {EpisodeRow(chains[ch].cur)}
  /\ CardReturn(ch, "row", FALSE)

\* await new Promise(resolve => setTimeout(resolve, 500)) is over: next card.
CardDelayDone(ch) ==
  /\ chains[ch].pc = "cardDelay"
  /\ LoopOver(ch, chains[ch].rest)
  /\ UNCHANGED <<isRunning, processedEpisodes, episodes, audit, persistFailed>>
  /\ UNCHANGED <<fetchVars, ingestVars>>

Next ==
  \/ StartMonitoring
  \/ StopMonitoring
  \/ \E ch \in Chains : TimerFire(ch)
  \/ \E ch \in Chains : HomepageFail(ch)
  \/ \E ch \in Chains, list \in HomepageLists : HomepageOk(ch, list)
  \/ \E ch \in Chains : ScrapeDetailFail(ch)
  \/ \E ch \in Chains : ScrapeUnresolved(ch)
  \/ \E ch \in Chains, written \in BOOLEAN : ScrapeGatewayFail(ch, written)
  \/ \E ch \in Chains : ScrapeOk(ch)
  \/ \E ch \in Chains : CardDelayDone(ch)

Spec == Init /\ [][Next]_vars

\* The same program, with the histories of failed and passed-over cards kept.
AuditSpec == AuditInit /\ [][Next]_vars

(***************************************************************************)
(* fetchHtmlWithRetry (scraper.js) and the ProxyManager.                   *)
(* fetch-utils.js has the same loop without proxies: it is this one with   *)
(* an empty proxy list.                                                    *)
(***************************************************************************)
\* PROXY_LIST entries; "bad" is an entry new HttpsProxyAgent() rejects.
ProxyNames == {"p1", "p2", "bad"}

ProxyLists == UNION { [1..n -> ProxyNames] : n \in 0..MaxProxies }

\* what axios.get rejects with: err.message (Node's AggregateError has none)
ErrorMessages == {"timeout", "status 403", ""}

\* res.data of a resolved GET: a page, an empty body, or no body at all
Bodies == {"<html>a</html>", "<html>b</html>", "", "undefined"}

\* String(res.data || '')
BodyText(data) == IF data \in {"", "undefined"} THEN "" ELSE data

\* Variant: retries * proxyList.length, without the floor of one.
TotalAttemptsNoFloor(retries, proxyCount) == retries * proxyCount

\* retries * Math.max(1, proxyList.length || 1)
TotalAttempts(retries, proxyCount) ==
  retries * (IF (IF proxyCount = 0 THEN 1 ELSE proxyCount) > 1 THEN proxyCount ELSE 1)

\* The for loop of getNextProxy, `left` iterations to go; after the loop the
\* quarantine set is cleared and proxies[0] returned.  index is 0-based.
\* Variant: when the loop finds every proxy quarantined, null is returned.
RECURSIVE ScanProxiesGivesUp(_, _, _, _)
ScanProxiesGivesUp(ps, index, failed, left) ==
  IF left = 0
  THEN [proxy |-> NoProxy, index |-> index, failed |-> failed]
  ELSE LET proxy == ps[index + 1]
           next == (index + 1) % Len(ps)
       IN IF proxy \notin failed
          THEN [proxy |-> proxy, index |-> next, failed |-> failed]
          ELSE ScanProxiesGivesUp(ps, next, failed, left - 1)

\* Variant: the cursor is advanced without the modulo.
RECURSIVE ScanProxiesNoWrap(_, _, _, _)
ScanProxiesNoWrap(ps, index, failed, left) ==
  IF left = 0
  THEN [proxy |-> ps[1], index |-> index, failed |-> {}]
  ELSE LET proxy == ps[(index % Len(ps)) + 1]
           next == index + 1
       IN IF proxy \notin failed
          THEN [proxy |-> proxy, index |-> next, failed |-> failed]
          ELSE ScanProxiesNoWrap(ps, next, failed, left - 1)

RECURSIVE ScanProxies(_, _, _, _)
ScanProxies(ps, index, failed, left) ==
  IF left = 0
  THEN [proxy |-> ps[1], index |-> index, failed |-> {}]
  ELSE LET proxy == ps[index + 1]
           next == (index + 1) % Len(ps)
       IN IF proxy \notin failed
          THEN [proxy |-> proxy, index |-> next, failed |-> failed]
          ELSE ScanProxies(ps, next, failed, left - 1)

\* Variant: the proxy under the cursor is returned whether quarantined or not.
getNextProxyNoSkip(ps, index, failed) ==
  IF Len(ps) = 0 THEN [proxy |-> NoProxy, index |-> index, failed |-> failed]
  ELSE [proxy |-> ps[index + 1], index |-> (index + 1) % Len(ps), failed |-> failed]

getNextProxy(ps, index, failed) ==
  IF Len(ps) = 0 THEN [proxy |-> NoProxy, index |-> index, failed |-> failed]
  ELSE ScanProxies(ps, index, failed, Len(ps))

\* whether new HttpsProxyAgent(proxyUrl) succeeds
createProxyAgent(proxyString) == proxyString # "bad"

\* Variant: the config carries the proxy string although no agent was made.
ConfigProxyKeepsString(picked) == picked.proxy

\* getAxiosConfig: the _proxyString of the returned config, NoProxy when the
\* base config comes back (no proxy, or no agent for it).
ConfigProxy(picked) ==
  IF picked.proxy # NoProxy /\ createProxyAgent(picked.proxy) THEN picked.proxy ELSE NoProxy

\* One pass of the loop body up to the await: getAxiosConfig, then axios.get.
IssueAttempt(f, i) ==
  LET picked == getNextProxy(proxies, currentIndex, failedProxies) IN
  /\ currentIndex' = picked.index
  /\ failedProxies' = picked.failed
  /\ fetch' = [f EXCEPT !.pc = "get", !.i = i, !.proxy = ConfigProxy(picked),
                        !.attempts = f.attempts + 1,
                        !.picked = picked.proxy,
                        !.poolBefore = [index |-> currentIndex, failed |-> failedProxies]]

\* `${lastErr?.message || 'unknown error'}`
CauseText(lastErr) == IF lastErr \in {"null", ""} THEN "unknown error" ELSE lastErr

\* throw new Error(`Failed to fetch ${url} after ${totalAttempts} attempts: ...`)
Thrown(f) == [f EXCEPT !.pc = "thrown", !.ret = <<"Failed to fetch", f.total, CauseText(f.lastErr)>>]

FetchCall(retries) ==
  /\ fetch.pc = "idle"
  /\ LET f == [IdleFetch EXCEPT !.retries = retries,
                                !.total = TotalAttempts(retries, Len(proxies))]
     IN IF 1 <= f.total
        THEN IssueAttempt(f, 1)
        ELSE /\ fetch' = Thrown(f)
             /\ UNCHANGED <<currentIndex, failedProxies>>
  /\ UNCHANGED <<proxies, schedVars, ingestVars>>

\* Variant: the proxy of a successful attempt is reported to handleProxyError.
AttemptOkQuarantines(data) ==
  /\ fetch.pc = "get"
  /\ fetch' = [fetch EXCEPT !.pc = "returned", !.data = data, !.ret = BodyText(data)]
  /\ failedProxies' = IF fetch.proxy # NoProxy THEN failedProxies \cup {fetch.proxy}
                      ELSE failedProxies
  /\ UNCHANGED <<proxies, currentIndex, schedVars, ingestVars>>

\* Variant: a successful attempt empties the quarantine set.
AttemptOkReleases(data) ==
  /\ fetch.pc = "get"
  /\ fetch' = [fetch EXCEPT !.pc = "returned", !.data = data, !.ret = BodyText(data)]
  /\ failedProxies' = {}
  /\ UNCHANGED <<proxies, currentIndex, schedVars, ingestVars>>

\* return String(res.data || '')
AttemptOk(data) ==
  /\ fetch.pc = "get"
  /\ fetch' = [fetch EXCEPT !.pc = "returned", !.data = data, !.ret = BodyText(data)]
  /\ UNCHANGED <<proxies, currentIndex, failedProxies, schedVars, ingestVars>>

\* Variant: handleProxyError quarantines whatever the attempt went through.
AttemptFailMarksAlways(msg) ==
  /\ fetch.pc = "get"
  /\ failedProxies' = failedProxies \cup {fetch.proxy}
  /\ LET f == [fetch EXCEPT !.lastErr = msg, !.errLog = msg] IN
     fetch' = IF fetch.i < fetch.total
              THEN [f EXCEPT !.pc = "delay", !.delays = fetch.delays + 1]
              ELSE Thrown(f)
  /\ UNCHANGED <<proxies, currentIndex, schedVars, ingestVars>>

\* Variant: the catch does not report the proxy to handleProxyError.
AttemptFailForgets(msg) ==
  /\ fetch.pc = "get"
  /\ UNCHANGED failedProxies
  /\ LET f == [fetch EXCEPT !.lastErr = msg, !.errLog = msg] IN
     fetch' = IF fetch.i < fetch.total
              THEN [f EXCEPT !.pc = "delay", !.delays = fetch.delays + 1]
              ELSE Thrown(f)
  /\ UNCHANGED <<proxies, currentIndex, schedVars, ingestVars>>

\* catch (err): lastErr = err; handleProxyError; delay unless this was the last attempt
AttemptFail(msg) ==
  /\ fetch.pc = "get"
  /\ failedProxies' = IF fetch.proxy # NoProxy THEN failedProxies \cup {fetch.proxy}
                      ELSE failedProxies
  /\ LET f == [fetch EXCEPT !.lastErr = msg, !.errLog = msg] IN
     fetch' = IF fetch.i < fetch.total
              THEN [f EXCEPT !.pc = "delay", !.delays = fetch.delays + 1]
              ELSE Thrown(f)
  /\ UNCHANGED <<proxies, currentIndex, schedVars, ingestVars>>

\* await delay(CONFIG.scraper.delay) is over: i++, next pass
DelayDone ==
  /\ fetch.pc = "delay"
  /\ IssueAttempt(fetch, fetch.i + 1)
  /\ UNCHANGED <<proxies, schedVars, ingestVars>>

\* The caller has the result; the manager keeps its cursor and quarantine set.
FetchSettled ==
  /\ fetch.pc \in {"returned", "thrown"}
  /\ fetch' = IdleFetch
  /\ UNCHANGED <<proxies, currentIndex, failedProxies, schedVars, ingestVars>>

FetchNext ==
  \/ \E retries \in 0..MaxRetries : FetchCall(retries)
  \/ \E data \in Bodies : AttemptOk(data)
  \/ \E msg \in ErrorMessages : AttemptFail(msg)
  \/ DelayDone
  \/ FetchSettled

FetchInit ==
  /\ InitState
  /\ audit = FALSE
  /\ proxies \in ProxyLists
  /\ currentIndex = 0
  /\ failedProxies = {}
  /\ fetch = IdleFetch
  /\ StoreEmptyState
  /\ solo = FALSE
  /\ probe = NoProbe

FetchSpec == FetchInit /\ [][FetchNext]_vars

(***************************************************************************)
(* The ProxyManager by itself: its two methods that write its state,       *)
(* called in any order, as the attempts of fetches under way at the same   *)
(* time call them.  fetch.picked holds what getNextProxy() returned last.  *)
(***************************************************************************)
\* proxyManager.getNextProxy()
GetNextProxyCall ==
  LET picked == getNextProxy(proxies, currentIndex, failedProxies) IN
  /\ fetch.pc = "idle"
  /\ currentIndex' = picked.index
  /\ failedProxies' = picked.failed
  /\ fetch' = [fetch EXCEPT !.picked = picked.proxy,
                            !.poolBefore = [index |-> currentIndex, failed |-> failedProxies]]
  /\ UNCHANGED <<proxies, schedVars, ingestVars>>

\* What handleProxyError passes on: the _proxyString of a config, which is a
\* proxy of the list an agent was made for.
ProxyStrings == { proxies[j] : j \in { i \in DOMAIN proxies : createProxyAgent(proxies[i]) } }

\* proxyManager.markProxyAsFailed(proxyString)
MarkProxyAsFailedCall(proxyString) ==
  /\ fetch.pc = "idle"
  /\ proxyString \in ProxyStrings
  /\ failedProxies' = failedProxies \cup {proxyString}
  /\ UNCHANGED <<proxies, currentIndex, fetch, schedVars, ingestVars>>

PoolNext ==
  \/ GetNextProxyCall
  \/ \E proxyString \in ProxyNames : MarkProxyAsFailedCall(proxyString)

PoolSpec == FetchInit /\ [][PoolNext]_vars

(***************************************************************************)
(* Parsers.  The functions of homepage-parser.js, of the scraper and of    *)
(* the enrichment client that compute a result from their input alone.     *)
(* ParserSpec applies one of them to one input: Init draws the input, the  *)
(* action of the function writes what it returns.                          *)
(*                                                                         *)
(* A URL is the sequence of its characters.                                *)
(***************************************************************************)
Digits == {"0", "3", "7"}

Chars == Digits \cup {"x", "X", "-"}

Urls == UNION { [1..n -> Chars] : n \in 0..MaxUrlLen }

\* a call that returned null
Null == [null |-> TRUE]

\* \d
IsDigit(ch) == ch \in Digits

\* Variant: the pattern without its i flag.
IsXCaseSensitive(ch) == ch = "x"

\* x under the i flag of /(\d+)x(\d+)/i
IsX(ch) == ch \in {"x", "X"}

DigitValue(ch) == CASE ch = "0" -> 0 [] ch = "3" -> 3 [] ch = "7" -> 7

\* parseInt(text, 10) of a run of digits
RECURSIVE parseInt(_)
parseInt(text) ==
  IF text = <<>> THEN 0
  ELSE parseInt(SubSeq(text, 1, Len(text) - 1)) * 10 + DigitValue(text[Len(text)])

\* \d+ is greedy: the length of the run of digits that starts at p
RECURSIVE DigitRun(_, _)
DigitRun(url, p) ==
  IF p <= Len(url) /\ IsDigit(url[p]) THEN 1 + DigitRun(url, p + 1) ELSE 0

\* The pattern tried at p with a first group of n digits, then of fewer.
RECURSIVE Backtrack(_, _, _)
Backtrack(url, p, n) ==
  IF n = 0 THEN [found |-> FALSE]
  ELSE IF /\ p + n + 1 <= Len(url)
          /\ IsX(url[p + n])
          /\ IsDigit(url[p + n + 1])
       THEN [found |-> TRUE,
             one |-> SubSeq(url, p, p + n - 1),
             two |-> SubSeq(url, p + n + 1, p + n + DigitRun(url, p + n + 1))]
       ELSE Backtrack(url, p, n - 1)

\* url.match(/(\d+)x(\d+)/i): the match that starts leftmost
RECURSIVE Match(_, _)
Match(url, p) ==
  IF p > Len(url) THEN [found |-> FALSE]
  ELSE LET m == Backtrack(url, p, DigitRun(url, p)) IN
       IF m.found THEN m ELSE Match(url, p + 1)

\* parseEpisodeCode of homepage-parser.js and of scraper.js, on the text of a URL
parseEpisodeCodeText(url) ==
  LET match == Match(url, 1) IN
  IF ~match.found THEN Null
  ELSE [null |-> FALSE, season |-> parseInt(match.one), episode |-> parseInt(match.two)]

ParseInputs == { [fn |-> "parseEpisodeCode", url |-> u, done |-> FALSE, out |-> Null] : u \in Urls }

ParseCode ==
  /\ probe.fn = "parseEpisodeCode"
  /\ ~probe.done
  /\ probe' = [probe EXCEPT !.done = TRUE, !.out = parseEpisodeCodeText(probe.url)]
  /\ UNCHANGED <<schedVars, fetchVars, store, workers, standaloneProcessed, solo, ledger>>

(***************************************************************************)
(* Homepage extraction.  A URL is here the sequence of its parts: an       *)
(* origin, what may follow it in the host, "/", and the pieces of the      *)
(* path.  A document is the sequence of the href attributes of its         *)
(* anchors, in document order.                                             *)
(***************************************************************************)
\* 'https://toonstream.love', the origin of the homepage
Site == "https://toonstream.love"

\* a host that goes on after the characters of Site
HostTail == ".evil.example"

Elsewhere == "https://other.example"

\* the piece of a path that holds an episode code
CodePiece == "-3x07"

PieceText(piece) == IF piece = CodePiece THEN <<"-", "3", "x", "0", "7">> ELSE <<>>

\* href attributes a homepage can hold
Hrefs ==
  { <<Site, "/", "episode/", "a", CodePiece>>,
    <<"/", "episode/", "a", CodePiece>>,
    <<Site, "/", "episode/", "b">>,
    <<Site, "/", "series/", "a">>,
    <<Site, "/", "page/", "a">>,
    <<Site, HostTail, "/", "episode/", "a", CodePiece>>,
    <<Elsewhere, "/", "episode/", "a", CodePiece>>,
    <<"javascript:">> }

Documents == UNION { [1..n -> Hrefs] : n \in 0..MaxAnchors }

NullUrl == <<>>

\* normalizeUrl(rawUrl, base): new URL(rawUrl, base).href, null for javascript:
normalizeUrl(rawUrl) ==
  IF rawUrl[1] = "javascript:" THEN NullUrl
  ELSE IF rawUrl[1] \in {Site, Elsewhere} THEN rawUrl
  ELSE <<Site>> \o rawUrl

\* matchRegex.test(href): /\/(episode|watch|anime|series)\//i
MatchesSection(href) ==
  \E i \in 1..(Len(href) - 1) :
     href[i] = "/" /\ href[i + 1] \in {"episode/", "watch/", "anime/", "series/"}

\* href.startsWith(prefix)
StartsWith(href, prefix) ==
  Len(prefix) <= Len(href) /\ SubSeq(href, 1, Len(prefix)) = prefix

\* what the extractor of a caller compares a link with: CONFIG.scraper.url
\* ('https://toonstream.love/') in the monitoring service, the literal
\* 'https://toonstream.love' in homepage-parser.js
SitePrefix(caller) == IF caller = "service" THEN <<Site, "/">> ELSE <<Site>>

\* Variant: a URL that was seen before is pushed again.
UnseenAlways(href, seen) == TRUE

\* if (seen.has(href)) return
Unseen(href, seen) == href \notin seen

\* $('a[href]').each(...): the anchors from the i-th on
RECURSIVE EachAnchor(_, _, _, _, _)
EachAnchor(doc, i, seen, pushed, prefix) ==
  IF i > Len(doc) THEN pushed
  ELSE LET href == normalizeUrl(doc[i]) IN
       IF /\ href # NullUrl
          /\ MatchesSection(href)
          /\ StartsWith(href, prefix)
          /\ Unseen(href, seen)
       THEN EachAnchor(doc, i + 1, seen \cup {href},
                       Append(pushed, [url |-> href, anchor |-> i]), prefix)
       ELSE EachAnchor(doc, i + 1, seen, pushed, prefix)

\* the cards of a document; `anchor` is the element whose title, thumbnail
\* and context the card carries
extractHomepageEpisodeCards(doc, prefix) == EachAnchor(doc, 1, {}, <<>>, prefix)

\* /\/episode\//i.test(url), url.includes('/episode/')
IsEpisodeUrl(url) ==
  \E i \in 1..(Len(url) - 1) : url[i] = "/" /\ url[i + 1] = "episode/"

\* /\d+x\d+/.test(url)
TestCode(url) == \E i \in DOMAIN url : Match(PieceText(url[i]), 1).found

\* homepage-parser.js
filterRelevantHomepageEntries(entries) ==
  SelectSeq(entries, LAMBDA e : e.url # NullUrl /\ IsEpisodeUrl(e.url))

\* monitoring-service.js
filterRelevantEpisodes(entries) ==
  SelectSeq(entries, LAMBDA e : IsEpisodeUrl(e.url) /\ TestCode(e.url))

ExtractInputs ==
  { [fn |-> "extract", caller |-> c, doc |-> d, done |-> FALSE, out |-> Null] :
      c \in {"service", "monitor"}, d \in Documents }

\* const allCards = extractHomepageEpisodeCards(html); then the caller's filter
ExtractCards ==
  /\ probe.fn = "extract"
  /\ ~probe.done
  /\ LET allCards == extractHomepageEpisodeCards(probe.doc, SitePrefix(probe.caller)) IN
     probe' = [probe EXCEPT !.done = TRUE,
                            !.out = [null |-> FALSE,
                                     allCards |-> allCards,
                                     episodeCards |-> IF probe.caller = "service"
                                                      THEN filterRelevantEpisodes(allCards)
                                                      ELSE filterRelevantHomepageEntries(allCards)]]
  /\ UNCHANGED <<schedVars, fetchVars, store, workers, standaloneProcessed, solo, ledger>>

(***************************************************************************)
(* Series identity of an episode page: scrapeEpisode (scraper.js) and      *)
(* scrapeEpisodeDetails (monitor.js).  A page is what the selectors find   *)
(* in it; a value is named after the source it was read from, Missing      *)
(* stands for null, undefined and the empty string.                        *)
(***************************************************************************)
Missing == <<>>

TitleOf(source) == <<source, "title">>

LinkOf(source) == <<source, "link">>

\* what $('<tag>.breadcrumb a[href*="/series/"]').last() finds: no element,
\* or one with its text and an href that normalizeUrl accepts or not
Crumbs(tag) ==
  {[present |-> FALSE, title |-> Missing, valid |-> FALSE]}
    \cup [present : {TRUE}, title : {Missing, TitleOf(tag)}, valid : BOOLEAN]

\* the path of the episode URL, segment by segment, a segment piece by piece
Paths == { <<>>, << <<"episode">>, <<"foo", CodePiece>> >>, << <<"episode">>, <<CodePiece>> >> }

Pages ==
  [nav : Crumbs("nav"), div : Crumbs("div"), path : Paths, og : {Missing, TitleOf("og")}]

\* episodeSegment.replace(/-\d+x\d+\/?$/, '')
StripCode(segment) ==
  IF segment # <<>> /\ segment[Len(segment)] = CodePiece
  THEN SubSeq(segment, 1, Len(segment) - 1)
  ELSE segment

\* derivedSlug.split('-').map(capitalize).join(' ')
TitleFromSlug(slug) == IF slug = <<>> THEN Missing ELSE TitleOf("url")

\* Variant: a fallback runs whatever the earlier sources gave.
IncompleteAlways(link, title) == TRUE

\* if (!seriesUrl || !seriesTitle)
Incomplete(link, title) == link = Missing \/ title = Missing

\* scrapeEpisode, lines 238-282: null, or the title and the series URL
ResolveInScraper(page) ==
  LET crumb(c, tag) == [link |-> IF c.present /\ c.valid THEN LinkOf(tag) ELSE Missing,
                        title |-> c.title]
      first == crumb(page.nav, "nav")
      second == IF Incomplete(first.link, first.title) THEN crumb(page.div, "div") ELSE first
  IN
  IF Incomplete(second.link, second.title) /\ page.path = <<>>
  THEN Null
  ELSE LET third == IF Incomplete(second.link, second.title)
                    THEN [link |-> LinkOf("url"),
                          title |-> TitleFromSlug(StripCode(page.path[Len(page.path)]))]
                    ELSE second
           title == IF third.title = Missing THEN page.og ELSE third.title
       IN IF third.link = Missing \/ title = Missing
          THEN Null
          ELSE [null |-> FALSE, title |-> title, link |-> third.link]

\* deriveSeriesSlugFromEpisodeUrl: 'unknown' when the URL has no segment
DerivedSlug(path) == IF path = <<>> THEN <<"unknown">> ELSE StripCode(path[Len(path)])

\* scrapeEpisodeDetails, lines 24-51: the title and the slug; the slug of a
\* breadcrumb is the last segment of its href as written
ResolveInMonitor(page) ==
  LET crumb(c, tag, before) == IF c.present
                               THEN [link |-> LinkOf(tag), title |-> c.title]
                               ELSE before
      first == crumb(page.nav, "nav", [link |-> Missing, title |-> Missing])
      second == IF Incomplete(first.link, first.title) THEN crumb(page.div, "div", first)
                ELSE first
      third == IF Incomplete(second.link, second.title)
               THEN [link |-> IF DerivedSlug(page.path) = <<>> THEN Missing ELSE LinkOf("url"),
                     title |-> TitleFromSlug(DerivedSlug(page.path))]
               ELSE second
  IN [null |-> FALSE, title |-> third.title, link |-> third.link]

ResolveInputs ==
  { [fn |-> "resolve", caller |-> c, page |-> p, done |-> FALSE, out |-> Null] :
      c \in {"scraper", "monitor"}, p \in Pages }

ResolveSeries ==
  /\ probe.fn = "resolve"
  /\ ~probe.done
  /\ probe' = [probe EXCEPT !.done = TRUE,
                            !.out = IF probe.caller = "scraper"
                                    THEN ResolveInScraper(probe.page)
                                    ELSE ResolveInMonitor(probe.page)]
  /\ UNCHANGED <<schedVars, fetchVars, store, workers, standaloneProcessed, solo, ledger>>

(***************************************************************************)
(* Enrichment (tmdb-client): searchTMDB, fetchTMDBDetails, fetchTMDBData   *)
(* and enrichSeriesWithTMDB.  The answers of the two GETs are inputs; a    *)
(* function returns a value or throws (Threw).                             *)
(***************************************************************************)
Threw == [threw |-> TRUE]

\* what the search GET does: rejects, answers without results, answers with one
SearchAnswers == {"rejects", "no results", "found"}

\* what the details GET answers with
TmdbDetails ==
  [tmdb_id : {<<"tmdb", "id">>},
   description : {Missing, <<"tmdb", "overview">>},
   release_date : {Missing, <<"tmdb", "2019-04-01">>}]

DetailsAnswers == {Threw} \cup TmdbDetails

\* the newSeries of scrapeEpisode
SeriesData ==
  [title : {<<"page", "title">>},
   description : {Missing, <<"page", "description">>},
   year : {Missing, <<"page", "year">>}]

\* searchTMDB: the id of the first result, or null; its catch returns null
searchTMDB(apiKey, answer) ==
  IF ~apiKey THEN Null
  ELSE IF answer = "found" THEN [null |-> FALSE, id |-> <<"tmdb", "id">>] ELSE Null

\* fetchTMDBDetails: the details, or null; its catch returns null
fetchTMDBDetails(apiKey, tmdbId, answer) ==
  IF ~apiKey \/ tmdbId = Null THEN Null
  ELSE IF answer = Threw THEN Null ELSE answer

\* fetchTMDBData
fetchTMDBData(apiKey, search, details) ==
  IF ~apiKey THEN Null
  ELSE LET tmdbId == searchTMDB(apiKey, search) IN
       IF tmdbId = Null THEN Null ELSE fetchTMDBDetails(apiKey, tmdbId, details)

\* parseInt(tmdbData.release_date.split('-')[0])
YearOf(release_date) == IF release_date = Missing THEN Missing ELSE <<"tmdb", "2019">>

\* Variant: the merge runs whatever fetchTMDBData returned.
HasTmdbDataAlways(tmdbData) == TRUE

\* if (tmdbData)
HasTmdbData(tmdbData) == tmdbData # Null

\* enrichSeriesWithTMDB: the merged series, or seriesData as it came; reading
\* a property of null throws
enrichSeriesWithTMDB(seriesData, tmdbData) ==
  IF HasTmdbData(tmdbData)
  THEN IF tmdbData = Null THEN Threw
       ELSE [threw |-> FALSE,
             series |-> [title |-> seriesData.title,
                         tmdb_id |-> tmdbData.tmdb_id,
                         description |-> IF tmdbData.description # Missing
                                         THEN tmdbData.description
                                         ELSE seriesData.description,
                         release_date |-> tmdbData.release_date,
                         year |-> IF seriesData.year # Missing THEN seriesData.year
                                  ELSE YearOf(tmdbData.release_date)]]
  ELSE [threw |-> FALSE, series |-> seriesData]

EnrichInputs ==
  { [fn |-> "enrich", apiKey |-> k, search |-> s, details |-> d, series |-> sd,
     done |-> FALSE, out |-> Null] :
      k \in BOOLEAN, s \in SearchAnswers, d \in DetailsAnswers, sd \in SeriesData }

EnrichSeries ==
  /\ probe.fn = "enrich"
  /\ ~probe.done
  /\ probe' = [probe EXCEPT
                 !.done = TRUE,
                 !.out = enrichSeriesWithTMDB(probe.series,
                            fetchTMDBData(probe.apiKey, probe.search, probe.details))]
  /\ UNCHANGED <<schedVars, fetchVars, store, workers, standaloneProcessed, solo, ledger>>

ParserNext ==
  \/ ParseCode
  \/ ExtractCards
  \/ ResolveSeries
  \/ EnrichSeries

ParserInit ==
  /\ InitState
  /\ audit = FALSE
  /\ FetchIdleState
  /\ StoreEmptyState
  /\ solo = FALSE
  /\ probe \in ParseInputs \cup ExtractInputs \cup ResolveInputs \cup EnrichInputs

\* One call of one parser function.
ParserSpec == ParserInit /\ [][ParserNext]_vars

(***************************************************************************)
(* Ingestion of one card against the store.  Three callers run it:         *)
(*   "service"     the card loop of pollHomepage, scrapeEpisode(force:     *)
(*                 false), then processedEpisodes.add                      *)
(*   "api"         POST /api/scrape (or the scraper CLI), scrapeEpisode    *)
(*                 with the caller's force flag                            *)
(*   "standalone"  processEpisodeCard of the standalone monitor, over the  *)
(*                 supabase-helpers                                        *)
(* One gateway call per step; every gateway call is answered (a call that  *)
(* fails for reasons outside the store is the subject of Spec), but for    *)
(* the creation of a series, which may fail: the series page may not come  *)
(* and the insert of ensureSeriesExists may be refused.  The detail page   *)
(* may resolve to no series; the series page fetch, the enrichment and     *)
(* upsertSeries are one step.                                              *)
(***************************************************************************)
Kinds == {"service", "api", "standalone"}

\* what a page shows when it is fetched (title, thumbnail, servers)
Versions == {"v1", "v2"}

Slugs == { SlugOf(c) : c \in Cards }

\* url.match(/(\d+)x(\d+)/i) finds a code
HasCode(c) == c \in Cards

\* upsert on a table's key: put or overwrite the row
Put(table, key, row) == [k \in DOMAIN table \cup {key} |-> IF k = key THEN row ELSE table[k]]

\* latest_episodes is kept as the list of its keys by added_at, greatest first.
Without(list, keys) == SelectSeq(list, LAMBDA k : k \notin keys)

\* Variant: the upsert into latest_episodes writes nothing.
MoveToFrontLost(list, key) == list

\* upsert with added_at: new Date(): the row is now the most recent one
MoveToFront(list, key) == <<key>> \o Without(list, {key})

Settled(w) == workers[w].pc = "idle"

MayBegin(w) == Settled(w) /\ (solo => \A o \in Workers : Settled(o))

KeepCaches == UNCHANGED <<processedEpisodes, standaloneProcessed>>

\* An ingestion goes on: nothing returns to a caller in this step.
GoOn(book) ==
  /\ ledger' = [book EXCEPT !.returned = NoReturn]
  /\ KeepCaches

\* An ingestion returns `result` to its caller, which updates its Dedup Cache:
\* the card loop after every return, processEpisodeCard unless saveEpisode threw.
Return(wk, result) ==
  /\ ledger' = [ledger EXCEPT !.returned = [kind |-> wk.kind, card |-> wk.card,
                                             result |-> result, logged |-> TRUE]]
  /\ processedEpisodes' = IF wk.kind = "service"
                          THEN MarkProcessed(processedEpisodes, createEpisodeKey(wk.card), result)
                          ELSE processedEpisodes
  /\ standaloneProcessed' = IF wk.kind = "standalone" /\ result \notin {"error", "refused"}
                            THEN standaloneProcessed \cup {wk.card}
                            ELSE standaloneProcessed

\* A link without an episode code: filterRelevantEpisodes drops it without a
\* word, processEpisodeCard and scrapeEpisode log it and return.
EvaluateNoCode(w, kind) ==
  /\ MayBegin(w)
  /\ ledger' = [ledger EXCEPT !.returned =
                  [kind |-> kind, card |-> NoCodeCard,
                   result |-> IF kind = "service" THEN "filtered"
                              ELSE IF kind = "standalone" THEN "skipped" ELSE "null",
                   logged |-> (kind # "service")]]
  /\ KeepCaches
  /\ UNCHANGED <<store, workers, solo, cycleVars, fetchVars>>

\* The caller's dedup check passed: the detail page is requested.
BeginIngest(w, kind, force, card) ==
  /\ MayBegin(w)
  /\ HasCode(card)
  /\ ledger.ingestions < MaxIngestions
  /\ force => kind = "api"
  /\ kind = "service" => createEpisodeKey(card) \notin processedEpisodes
  /\ kind = "standalone" => card \notin standaloneProcessed
  /\ workers' = [workers EXCEPT ![w] =
                   [IdleWorker EXCEPT !.pc = "detail", !.kind = kind, !.force = force,
                                      !.card = card]]
  /\ GoOn([ledger EXCEPT !.ingestions = @ + 1])
  /\ UNCHANGED <<store, solo, cycleVars, fetchVars>>

\* const html = await fetchHtmlWithRetry(episodeUrl)
DetailFetched(w, page) ==
  /\ workers[w].pc = "detail"
  /\ workers' = [workers EXCEPT ![w] = [@ EXCEPT !.pc = "getSeries", !.page = page]]
  /\ GoOn(ledger)
  /\ UNCHANGED <<store, solo, cycleVars, fetchVars>>

\* Variant: a row for the series is written before scrapeEpisode gives up.
SeriesUnresolvedWrites(w) ==
  /\ workers[w].pc = "detail"
  /\ workers[w].kind # "standalone"
  /\ { page \in Pages : ResolveInScraper(page) = Null } # {}
  /\ store' = [store EXCEPT !.series = Put(@, SlugOf(workers[w].card), "bare")]
  /\ workers' = [workers EXCEPT ![w] = IdleWorker]
  /\ Return(workers[w], "unresolved")
  /\ UNCHANGED <<solo, cycleVars, fetchVars>>

\* The detail page came, and breadcrumbs, URL and og:title give no series
\* title or link: scrapeEpisode logs it and returns null before its first
\* gateway call.  scrapeEpisodeDetails of the standalone monitor always
\* returns an identity.
SeriesUnresolved(w) ==
  /\ workers[w].pc = "detail"
  /\ workers[w].kind # "standalone"
  /\ { page \in Pages : ResolveInScraper(page) = Null } # {}
  /\ workers' = [workers EXCEPT ![w] = IdleWorker]
  /\ Return(workers[w], "unresolved")
  /\ UNCHANGED <<store, solo, cycleVars, fetchVars>>

\* getSeriesBySlug answers (scrapeEpisode), or the select of ensureSeriesExists.
\* Without a row scrapeEpisode requests the series page.
GetSeries(w) ==
  LET wk == workers[w]
      slug == SlugOf(wk.card)
      exists == slug \in DOMAIN store.series
  IN
  /\ wk.pc = "getSeries"
  /\ workers' = [workers EXCEPT ![w] =
                   [@ EXCEPT !.pc = IF exists THEN "getEpisode"
                                    ELSE IF wk.kind = "standalone" THEN "insertSeries"
                                    ELSE "seriesPage"]]
  /\ GoOn(IF ~exists /\ wk.kind # "standalone"
          THEN [ledger EXCEPT !.seriesFetched = @ \cup {slug}]
          ELSE ledger)
  /\ UNCHANGED <<store, solo, cycleVars, fetchVars>>

\* The series page is fetched, enriched and written: upsertSeries answers.
SeriesCreated(w, page) ==
  /\ workers[w].pc = "seriesPage"
  /\ store' = [store EXCEPT !.series = Put(@, SlugOf(workers[w].card), page)]
  /\ workers' = [workers EXCEPT ![w] = [@ EXCEPT !.pc = "getEpisode"]]
  /\ GoOn(ledger)
  /\ UNCHANGED <<solo, cycleVars, fetchVars>>

\* Variant: scrapeEpisode goes on to the episode although no series was written.
SeriesPageFailGoesOn(w) ==
  /\ workers[w].pc = "seriesPage"
  /\ workers' = [workers EXCEPT ![w] = [@ EXCEPT !.pc = "getEpisode"]]
  /\ GoOn(ledger)
  /\ UNCHANGED <<store, solo, cycleVars, fetchVars>>

\* fetchHtmlWithRetry(seriesUrl) throws after its attempts: scrapeEpisode's
\* catch logs the error and returns null; no SeriesRecord is written.
SeriesPageFail(w) ==
  /\ workers[w].pc = "seriesPage"
  /\ workers' = [workers EXCEPT ![w] = IdleWorker]
  /\ Return(workers[w], "null")
  /\ UNCHANGED <<store, solo, cycleVars, fetchVars>>

\* ensureSeriesExists: the insert answers; a duplicate-key error is ignored.
InsertSeries(w) ==
  LET slug == SlugOf(workers[w].card) IN
  /\ workers[w].pc = "insertSeries"
  /\ store' = IF slug \in DOMAIN store.series THEN store
              ELSE [store EXCEPT !.series = Put(@, slug, "bare")]
  /\ workers' = [workers EXCEPT ![w] = [@ EXCEPT !.pc = "getEpisode"]]
  /\ GoOn(ledger)
  /\ UNCHANGED <<solo, cycleVars, fetchVars>>

\* ensureSeriesExists: the insert is refused with an error that is not a
\* duplicate key: it throws, saveEpisode with it, and processEpisodeCard logs.
InsertSeriesFail(w) ==
  /\ workers[w].pc = "insertSeries"
  /\ workers' = [workers EXCEPT ![w] = IdleWorker]
  /\ Return(workers[w], "refused")
  /\ UNCHANGED <<store, solo, cycleVars, fetchVars>>

\* Variant: the row is written again whether it exists or not.
NeverSkipExisting(existing, force) == FALSE

\* Variant: the existing row is returned whatever the force option says.
SkipExistingIgnoresForce(existing, force) == existing

\* if (existing && !options.force) return existing
SkipExisting(existing, force) == existing /\ ~force

\* getEpisode answers (scrapeEpisode), or the select of saveEpisode: `existing`
\* is what it found.
GetEpisode(w) ==
  LET wk == workers[w]
      existing == EpisodeRow(wk.card) \in DOMAIN store.episodes
  IN
  /\ wk.pc = "getEpisode"
  /\ IF wk.kind = "standalone"
     THEN /\ workers' = [workers EXCEPT ![w] =
                           [@ EXCEPT !.pc = IF existing THEN "getLatest" ELSE "saveEpisode",
                                     !.existing = existing]]
          /\ GoOn(ledger)
     ELSE IF SkipExisting(existing, wk.force)
     THEN /\ workers' = [workers EXCEPT ![w] = IdleWorker]
          /\ Return(wk, "existing")
     ELSE /\ workers' = [workers EXCEPT ![w] =
                           [@ EXCEPT !.pc = "saveEpisode", !.existing = existing]]
          /\ GoOn(ledger)
  /\ UNCHANGED <<store, solo, cycleVars, fetchVars>>

\* upsertEpisode answers (scrapeEpisode), or the insert of saveEpisode, which
\* throws on a duplicate key.
SaveEpisode(w) ==
  LET wk == workers[w]
      key == EpisodeRow(wk.card)
  IN
  /\ wk.pc = "saveEpisode"
  /\ IF wk.kind = "standalone" /\ key \in DOMAIN store.episodes
     THEN /\ workers' = [workers EXCEPT ![w] = IdleWorker]
          /\ Return(wk, "error")
          /\ UNCHANGED store
     ELSE /\ store' = [store EXCEPT !.episodes = Put(@, key, wk.page)]
          /\ workers' = [workers EXCEPT ![w] =
                           [@ EXCEPT !.pc = IF wk.kind = "standalone" THEN "getLatest"
                                            ELSE "addLatest"]]
          /\ GoOn(ledger)
  /\ UNCHANGED <<solo, cycleVars, fetchVars>>

\* addToLatestEpisodes of the helpers: the select answers.
GetLatest(w) ==
  LET wk == workers[w] IN
  /\ wk.pc = "getLatest"
  /\ workers' = [workers EXCEPT ![w] =
                   [@ EXCEPT !.pc = IF \E i \in DOMAIN store.latest :
                                         store.latest[i] = EpisodeRow(wk.card)
                                    THEN "pruneSelect" ELSE "addLatest"]]
  /\ GoOn(ledger)
  /\ UNCHANGED <<store, solo, cycleVars, fetchVars>>

\* The upsert of addToLatestEpisodes answers (supabase-client), or the insert
\* of the helpers, where a duplicate-key error is ignored.
AddLatest(w) ==
  LET wk == workers[w]
      key == EpisodeRow(wk.card)
      there == \E i \in DOMAIN store.latest : store.latest[i] = key
      written == wk.kind # "standalone" \/ ~there
  IN
  /\ wk.pc = "addLatest"
  /\ store' = IF written THEN [store EXCEPT !.latest = MoveToFront(@, key)] ELSE store
  /\ workers' = [workers EXCEPT ![w] = [@ EXCEPT !.pc = "pruneSelect"]]
  /\ GoOn(IF written THEN [ledger EXCEPT !.lastAdded = key] ELSE ledger)
  /\ UNCHANGED <<solo, cycleVars, fetchVars>>

\* Variant: the slice starts one entry early.
ToDeleteOneMore(allLatest, maxCount) == SubSeq(allLatest, maxCount, Len(allLatest))

\* allLatest.slice(maxCount)
ToDelete(allLatest, maxCount) == SubSeq(allLatest, maxCount + 1, Len(allLatest))

\* pruneLatestEpisodes: the select ordered by added_at descending answers.
PruneSelect(w) ==
  LET wk == workers[w] IN
  /\ wk.pc = "pruneSelect"
  /\ IF Len(store.latest) > MaxLatest
     THEN /\ workers' = [workers EXCEPT ![w] =
                           [@ EXCEPT !.pc = "delete",
                                     !.snapshot = ToDelete(store.latest, MaxLatest)]]
          /\ GoOn(ledger)
     ELSE /\ workers' = [workers EXCEPT ![w] = IdleWorker]
          /\ Return(wk, "saved")
  /\ UNCHANGED <<store, solo, cycleVars, fetchVars>>

\* A delete answers: supabase-client deletes one entry per call, by key; the
\* helpers delete all of them in one call, by row id.  A row that is deleted
\* takes its id with it: the helpers' pending lists no longer reach it.
Delete(w) ==
  LET wk == workers[w]
      gone == IF wk.kind = "standalone"
              THEN { wk.snapshot[i] : i \in DOMAIN wk.snapshot }
              ELSE {Head(wk.snapshot)}
      left == IF wk.kind = "standalone" THEN <<>> ELSE Tail(wk.snapshot)
  IN
  /\ wk.pc = "delete"
  /\ store' = [store EXCEPT !.latest = Without(@, gone)]
  /\ workers' = [o \in Workers |->
                   IF o = w
                   THEN IF left = <<>> THEN IdleWorker ELSE [wk EXCEPT !.snapshot = left]
                   ELSE IF workers[o].kind = "standalone"
                        THEN [workers[o] EXCEPT !.snapshot = Without(@, gone)]
                        ELSE workers[o]]
  /\ IF left = <<>> THEN Return(wk, "saved") ELSE GoOn(ledger)
  /\ UNCHANGED <<solo, cycleVars, fetchVars>>

\* The process of a monitor is started afresh: its Dedup Cache is empty again.
Restart(kind) ==
  /\ \A w \in Workers : workers[w].kind = kind => Settled(w)
  /\ \/ /\ kind = "service"
        /\ processedEpisodes # {}
        /\ processedEpisodes' = {}
        /\ UNCHANGED standaloneProcessed
     \/ /\ kind = "standalone"
        /\ standaloneProcessed # {}
        /\ standaloneProcessed' = {}
        /\ UNCHANGED processedEpisodes
  /\ ledger' = [ledger EXCEPT !.returned = NoReturn]
  /\ UNCHANGED <<store, workers, solo, cycleVars, fetchVars>>

IngestNext ==
  \/ \E w \in Workers, kind \in Kinds : EvaluateNoCode(w, kind)
  \/ \E w \in Workers, kind \in Kinds, force \in BOOLEAN, card \in Cards :
       BeginIngest(w, kind, force, card)
  \/ \E w \in Workers, page \in Versions : DetailFetched(w, page)
  \/ \E w \in Workers : SeriesUnresolved(w)
  \/ \E w \in Workers : GetSeries(w)
  \/ \E w \in Workers, page \in Versions : SeriesCreated(w, page)
  \/ \E w \in Workers : SeriesPageFail(w)
  \/ \E w \in Workers : InsertSeries(w)
  \/ \E w \in Workers : InsertSeriesFail(w)
  \/ \E w \in Workers : GetEpisode(w)
  \/ \E w \in Workers : SaveEpisode(w)
  \/ \E w \in Workers : GetLatest(w)
  \/ \E w \in Workers : AddLatest(w)
  \/ \E w \in Workers : PruneSelect(w)
  \/ \E w \in Workers : Delete(w)
  \/ \E kind \in {"service", "standalone"} : Restart(kind)

IngestInit == InitState /\ audit = FALSE /\ FetchIdleState /\ StoreEmptyState /\ solo = FALSE /\ probe = NoProbe

SoloInit == InitState /\ audit = FALSE /\ FetchIdleState /\ StoreEmptyState /\ solo = TRUE /\ probe = NoProbe

\* Ingestions of the three callers, interleaved.
IngestSpec == IngestInit /\ [][IngestNext]_vars

\* Ingestions of the three callers, one after the other.
SoloSpec == SoloInit /\ [][IngestNext]_vars

(***************************************************************************)
(* Properties                                                              *)
(***************************************************************************)
ActiveChains == { ch \in Chains : chains[ch].pc \in ActivePcs }

\* C1: at most one poll cycle is active at a time, also when monitoring is
\* stopped and started again while a cycle is in flight.
OneCycleAtATime == Cardinality(ActiveChains) <= 1

\* C2: an episode key enters the Dedup Cache only in a step in which
\* scrapeEpisode returned a row, that is after the card was resolved and stored.
KeyAddedOnlyAfterSuccess ==
  [][processedEpisodes' # processedEpisodes => lastEvent'.result = "row"]_vars

\* C3: a card whose persisting failed and that the homepage still lists is
\* never passed over by the card loop of a later cycle.
FailedCardNeverPassedOver == missed = {}

\* C4: a cycle that was processing a card when stopMonitoring() ran starts no
\* further card.
NoCardAfterStop ==
  [][\A ch \in Chains :
       chains[ch].pc = "cardDelay" /\ chains[ch].stopSeen => chains'[ch].pc # "scrape"]_vars

\* C5: while not Running no cycle begins: a chain is at the homepage fetch only
\* through a step that leaves the service Running, a cycle arms a timer only
\* while Running, and stopMonitoring() clears pollTimeout and the timer it held.
NoCycleWhileStopped ==
  [][/\ \A ch \in Chains :
          /\ chains[ch].pc # "fetchHome" /\ chains'[ch].pc = "fetchHome" => isRunning'
          /\ chains[ch].pc # "timer" /\ chains'[ch].pc = "timer" => isRunning
     /\ lastEvent'.call = "stop" =>
          /\ ~isRunning'
          /\ pollTimeout' = {}
          /\ \A ch \in pollTimeout : chains'[ch].pc # "timer"
          /\ \A ch \in Chains : chains'[ch].pc = "fetchHome" => chains[ch].pc = "fetchHome"]_vars

\* A stop has cancelled the timer of a service that had processed cards.
StoppedBetweenCycles ==
  /\ lastEvent.call = "stop"
  /\ processedEpisodes # {}
  /\ \A ch \in Chains : chains[ch].pc = "free"

\* C6: startMonitoring() while Running changes nothing: run state, Dedup Cache,
\* pending timer and the cycles under way stay as they are.
StartWhileRunningIsNoop ==
  [][isRunning /\ lastEvent'.call = "start" =>
       UNCHANGED <<isRunning, pollTimeout, processedEpisodes, chains, episodes>>]_vars

\* startMonitoring() has just returned with a timer pending.
StartedWhileTimerPending ==
  /\ lastEvent.call = "start"
  /\ isRunning
  /\ \E ch \in pollTimeout : chains[ch].pc = "timer"

\* C7: whatever scrapeEpisode returned for a card, the cycle goes on: the loop
\* keeps its remaining cards, next starts the first of them that is not
\* cached, and ends only when all of them are cached.
FailureKeepsCycleGoing ==
  [][\A ch \in Chains :
       LET rest == chains[ch].rest IN
       /\ chains[ch].pc = "scrape" /\ chains'[ch].pc # "scrape" =>
            /\ chains'[ch].pc = "cardDelay"
            /\ chains'[ch].rest = rest
       /\ chains[ch].pc = "cardDelay" /\ chains'[ch].pc # "cardDelay" =>
            \/ /\ chains'[ch].pc = "scrape"
               /\ \E k \in 1..Len(rest) :
                    /\ chains'[ch].cur = rest[k]
                    /\ chains'[ch].rest = SubSeq(rest, k + 1, Len(rest))
                    /\ createEpisodeKey(rest[k]) \notin processedEpisodes
                    /\ \A j \in 1..(k - 1) : createEpisodeKey(rest[j]) \in processedEpisodes
            \/ /\ chains'[ch].pc \in {"timer", "free"}
               /\ \A j \in 1..Len(rest) : createEpisodeKey(rest[j]) \in processedEpisodes]_vars

\* A card has just failed and the loop still holds a later card that is not cached.
FailedCardWithMoreToDo ==
  /\ lastEvent.result = "null"
  /\ \E ch \in Chains :
       /\ chains[ch].pc = "cardDelay"
       /\ chains[ch].rest # <<>>
       /\ createEpisodeKey(chains[ch].rest[1]) \notin processedEpisodes

\* C8: a failed homepage fetch processes no card and, while Running, arms the
\* next cycle's timer; every cycle that ends while Running arms it, and only
\* startMonitoring / stopMonitoring change the run state.
HomepageFailureStillSchedules ==
  [][/\ lastEvent'.result = "homepageFailed" =>
          /\ UNCHANGED <<processedEpisodes, episodes>>
          /\ \A ch \in Chains : chains'[ch].pc \in LoopPcs => chains'[ch] = chains[ch]
          /\ \E ch \in Chains :
               /\ chains[ch].pc = "fetchHome"
               /\ chains'[ch].pc = IF isRunning THEN "timer" ELSE "free"
               /\ isRunning => pollTimeout' = {ch}
     /\ \A ch \in Chains :
          chains[ch].pc \in ActivePcs /\ chains'[ch].pc \notin ActivePcs /\ isRunning =>
             chains'[ch].pc = "timer" /\ pollTimeout' = {ch}
     /\ isRunning' # isRunning => lastEvent'.call \in {"start", "stop"}]_vars

\* The homepage fetch has just failed and the next cycle's timer is armed.
HomepageFailedAndRearmed ==
  /\ lastEvent.result = "homepageFailed"
  /\ isRunning
  /\ \E ch \in pollTimeout : chains[ch].pc = "timer"

AttemptBudget == fetch.retries * (IF Len(proxies) > 1 THEN Len(proxies) ELSE 1)

\* C9: a call issues at most maxRetries x max(1, proxyCount) GETs; when it
\* throws it has issued exactly that many, and the error's text ends in the
\* last attempt's error message.
AttemptsBoundedAndErrorCarried ==
  /\ fetch.attempts <= AttemptBudget
  /\ fetch.pc = "thrown" =>
       /\ fetch.attempts = AttemptBudget
       /\ fetch.ret[1] = "Failed to fetch"
       /\ fetch.attempts > 0 => fetch.errLog = "" \/ fetch.ret[3] = fetch.errLog

\* Every attempt of a call over several proxies has failed.
AllAttemptsFailed ==
  /\ fetch.pc = "thrown"
  /\ Len(proxies) > 1
  /\ fetch.attempts > fetch.retries
  /\ fetch.errLog \notin {"", "null"}

\* C10: the first successful GET ends the call: the body's text is returned,
\* no further GET and no delay follow, and the proxy used is not quarantined.
FirstSuccessEndsCall ==
  [][/\ fetch.pc = "get" /\ fetch'.pc = "returned" =>
          /\ fetch'.ret = IF fetch'.data \in {"", "undefined"} THEN "" ELSE fetch'.data
          /\ fetch'.attempts = fetch.attempts
          /\ fetch'.delays = fetch.delays
          /\ failedProxies' = failedProxies
          /\ fetch.proxy \notin failedProxies'
     /\ fetch.pc = "returned" => fetch'.pc \in {"returned", "idle"}]_vars

\* A GET through a proxy succeeded after an earlier attempt failed, with attempts to spare.
SucceededAfterFailure ==
  /\ fetch.pc = "returned"
  /\ fetch.proxy # NoProxy
  /\ 1 < fetch.attempts
  /\ fetch.attempts < fetch.total
  /\ fetch.ret # ""

\* A step in which fetchHtmlWithRetry asks the ProxyManager for its next config.
AsksForProxy == fetch.pc # "get" /\ fetch'.pc = "get"

\* The distance from the cursor to the first proxy not in `failed`, in cyclic order.
FirstFreeOffset(ps, index, failed) ==
  CHOOSE d \in 0..(Len(ps) - 1) :
    /\ ps[((index + d) % Len(ps)) + 1] \notin failed
    /\ \A e \in 0..(d - 1) : ps[((index + e) % Len(ps)) + 1] \in failed

\* C11: with a proxy outside the quarantine set, getNextProxy() returns the
\* first such proxy at or after the cursor in cyclic order and leaves the
\* cursor just after it; what it returns is never in the quarantine set.
NextProxySkipsQuarantined ==
  [][AsksForProxy =>
       /\ (\E j \in DOMAIN proxies : proxies[j] \notin failedProxies) =>
            LET d == FirstFreeOffset(proxies, currentIndex, failedProxies) IN
            /\ fetch'.picked = proxies[((currentIndex + d) % Len(proxies)) + 1]
            /\ currentIndex' = (currentIndex + d + 1) % Len(proxies)
            /\ failedProxies' = failedProxies
       /\ fetch'.picked \notin failedProxies']_vars

\* The proxy under the cursor was quarantined and the one after it was returned.
SkippedQuarantinedProxy ==
  /\ fetch.pc = "get"
  /\ proxies # <<>>
  /\ proxies[fetch.poolBefore.index + 1] \in fetch.poolBefore.failed
  /\ fetch.picked \notin fetch.poolBefore.failed
  /\ fetch.picked # NoProxy

\* C12: with a non-empty list all of whose proxies are quarantined,
\* getNextProxy() empties the quarantine set and returns the list's first proxy.
AllQuarantinedResets ==
  [][AsksForProxy /\ proxies # <<>> /\ (\A j \in DOMAIN proxies : proxies[j] \in failedProxies) =>
       /\ failedProxies' = {}
       /\ fetch'.picked = proxies[1]
       /\ fetch'.picked # NoProxy]_vars

\* getNextProxy() has just been called with every proxy of a two-proxy list quarantined.
ResetAfterAllQuarantined ==
  /\ fetch.pc = "get"
  /\ Len(proxies) > 1
  /\ \A j \in DOMAIN proxies : proxies[j] \in fetch.poolBefore.failed
  /\ failedProxies = {}

\* C13: with an empty proxy list the pool never changes, getNextProxy()
\* returns null, every attempt goes out without a proxy, and failures
\* quarantine nothing.
EmptyPoolStaysDirect ==
  proxies = <<>> =>
    /\ currentIndex = 0
    /\ failedProxies = {}
    /\ fetch.picked = NoProxy
    /\ fetch.proxy = NoProxy

\* A call without proxies has failed more than once and thrown.
DirectAttemptsFailed ==
  /\ proxies = <<>>
  /\ fetch.pc = "thrown"
  /\ fetch.attempts > 1

AllSettled == \A w \in Workers : workers[w].pc = "idle"

\* C14: without force, processing a card whose record exists leaves every
\* stored EpisodeRecord as it is, one per key, and clearing a Dedup Cache
\* changes no record.
ReprocessingKeepsRecord ==
  [][(\A w \in Workers : ~workers[w].force) =>
       \A k \in DOMAIN store.episodes :
         /\ k \in DOMAIN store'.episodes
         /\ store'.episodes[k] = store.episodes[k]]_vars

\* The service has processed again a card whose record was stored before.
ServiceFoundExistingRecord ==
  /\ ledger.returned.kind = "service"
  /\ ledger.returned.result = "existing"
  /\ ledger.ingestions > 1
  /\ EpisodeRow(ledger.returned.card) \in DOMAIN store.episodes

\* C15: interleaved ingestions of a card leave one EpisodeRecord and at most
\* one LatestEntry for its key, and none of them fails.
InterleavedIngestionsSucceed ==
  /\ ledger.returned.result # "error"
  /\ ledger.returned.result \in {"saved", "existing"} =>
       EpisodeRow(ledger.returned.card) \in DOMAIN store.episodes
  /\ \A i, j \in DOMAIN store.latest : store.latest[i] = store.latest[j] => i = j

InterleavedPrunesKeepNewest ==
  [][/\ \A i \in DOMAIN store.latest :
          (\A j \in DOMAIN store'.latest : store'.latest[j] # store.latest[i]) => i > MaxLatest
     /\ (\A w \in Workers : workers'[w].pc = "idle") =>
          /\ Len(store'.latest) <= MaxLatest
          /\ ledger'.lastAdded # NoKey =>
               \E j \in DOMAIN store'.latest : store'.latest[j] = ledger'.lastAdded]_vars

\* C18: the series page is requested at most once per slug and never while a
\* SeriesRecord for the slug exists, and no step changes an existing SeriesRecord.
SeriesEnrichedOnce ==
  [][/\ \A w \in Workers :
          workers[w].pc # "seriesPage" /\ workers'[w].pc = "seriesPage" =>
             /\ SlugOf(workers'[w].card) \notin ledger.seriesFetched
             /\ SlugOf(workers'[w].card) \notin DOMAIN store.series
     /\ \A slug \in DOMAIN store.series :
          /\ slug \in DOMAIN store'.series
          /\ store'.series[slug] = store.series[slug]]_vars

\* C19: when the first ingestion over an empty store and empty Dedup Caches
\* has completed for a monitor, the store holds one SeriesRecord, one
\* EpisodeRecord and one LatestEntry, those of the card, and the monitor's
\* Dedup Cache holds the card.
FirstCardStoredOnce ==
  ledger.ingestions = 1 /\ ledger.returned.result = "saved" =>
     LET c == ledger.returned.card IN
     /\ DOMAIN store.series = {SlugOf(c)}
     /\ DOMAIN store.episodes = {EpisodeRow(c)}
     /\ store.latest = <<EpisodeRow(c)>>
     /\ ledger.returned.kind = "service" => processedEpisodes = {createEpisodeKey(c)}
     /\ ledger.returned.kind = "standalone" => standaloneProcessed = {c}

\* The service's first cycle has completed its one card, (foo, 1, 1).
FirstCycleCompleted ==
  /\ ledger.ingestions = 1
  /\ ledger.returned.kind = "service"
  /\ ledger.returned.result = "saved"
  /\ EpisodeRow(ledger.returned.card) = <<"foo", 1, 1>>

\* C20: a link without an episode code starts no ingestion, enters no Dedup
\* Cache, and its skipping is logged.
NoCodeCardSkippedAndLogged ==
  /\ \A w \in Workers : workers[w].pc # "idle" => HasCode(workers[w].card)
  /\ NoCodeCard \notin standaloneProcessed
  /\ ledger.returned.kind # "none" /\ ~HasCode(ledger.returned.card) => ledger.returned.logged

\* C25: a failed attempt through proxy p leaves p quarantined, the next proxy
\* is selected only after the delay that follows it and sees p quarantined,
\* and a failed direct attempt leaves the quarantine set as it was.
FailedProxyQuarantinedBeforeNext ==
  [][/\ fetch.pc = "get" /\ fetch'.pc \in {"delay", "thrown"} =>
          IF fetch.proxy # NoProxy
          THEN failedProxies' = failedProxies \cup {fetch.proxy}
          ELSE failedProxies' = failedProxies
     /\ fetch.pc = "get" /\ fetch'.pc = "get" => FALSE
     /\ fetch.pc # "idle" /\ fetch.pc # "get" /\ fetch'.pc = "get" =>
          /\ fetch.pc = "delay"
          /\ fetch'.delays = fetch'.attempts - 1
          /\ fetch.proxy # NoProxy => fetch.proxy \in fetch'.poolBefore.failed]_vars

\* A second attempt has been issued after a proxied attempt failed, its proxy
\* quarantined at the moment of selection.
NextIssuedAfterProxyFailure ==
  /\ fetch.pc = "get"
  /\ fetch.attempts >= 2
  /\ fetch.delays = fetch.attempts - 1
  /\ fetch.poolBefore.failed # {}
  /\ fetch.picked # NoProxy
  /\ fetch.picked \notin fetch.poolBefore.failed

\* C26: an attempt whose selected proxy yields no agent is issued direct, and
\* it is one of the counted attempts of the call.
AgentFailureGoesDirect ==
  fetch.pc = "get" /\ fetch.picked # NoProxy /\ ~createProxyAgent(fetch.picked) =>
     /\ fetch.proxy = NoProxy
     /\ fetch.attempts = fetch.i
     /\ fetch.i <= fetch.total

\* A later attempt of a call is in flight direct, its selected proxy without agent.
DirectAfterAgentFailure ==
  /\ fetch.pc = "get"
  /\ fetch.i >= 2
  /\ fetch.picked = "bad"
  /\ fetch.proxy = NoProxy

Returned(fn) == probe.fn = fn /\ probe.done

\* the value of a run of digits read as a decimal number
RECURSIVE Pow10(_)
Pow10(n) == IF n = 0 THEN 1 ELSE 10 * Pow10(n - 1)

RECURSIVE DecimalValue(_)
DecimalValue(text) ==
  IF text = <<>> THEN 0
  ELSE DigitValue(Head(text)) * Pow10(Len(text) - 1) + DecimalValue(Tail(text))

\* the positions of an x or X that stands between two digits
CodeMarks(url) ==
  { i \in 2..(Len(url) - 1) :
      url[i] \in {"x", "X"} /\ url[i - 1] \in Digits /\ url[i + 1] \in Digits }

\* the digits that reach up to position i, and those that start at position i
DigitsBefore(url, i) ==
  LET from == CHOOSE a \in 1..i :
                /\ \A k \in a..i : url[k] \in Digits
                /\ a = 1 \/ url[a - 1] \notin Digits
  IN SubSeq(url, from, i)

DigitsAfter(url, i) ==
  LET to == CHOOSE b \in i..Len(url) :
              /\ \A k \in i..b : url[k] \in Digits
              /\ b = Len(url) \/ url[b + 1] \notin Digits
  IN SubSeq(url, i, to)

\* C22: parseEpisodeCode returns null exactly for a URL without
\* <digits>x<digits>; otherwise the numbers on the two sides of the first
\* such x, read as decimal integers.
ParseReturnsFirstCode ==
  Returned("parseEpisodeCode") =>
     LET marks == CodeMarks(probe.url) IN
     IF marks = {} THEN probe.out = Null
     ELSE LET first == CHOOSE i \in marks : \A j \in marks : i <= j IN
          /\ ~probe.out.null
          /\ probe.out.season = DecimalValue(DigitsBefore(probe.url, first - 1))
          /\ probe.out.episode = DecimalValue(DigitsAfter(probe.url, first + 1))

\* "-3x07" has been parsed as season 3, episode 7.
ParsedThreeSeven ==
  /\ Returned("parseEpisodeCode")
  /\ probe.url = <<"-", "3", "x", "0", "7">>
  /\ probe.out = [null |-> FALSE, season |-> 3, episode |-> 7]

\* C28: every code parseEpisodeCode returns has season >= 1 and episode >= 1.
EpisodeCodeIsPositive ==
  Returned("parseEpisodeCode") /\ ~probe.out.null =>
     probe.out.season >= 1 /\ probe.out.episode >= 1

\* the origin of a URL: scheme and host
Origin(url) == IF Len(url) >= 2 /\ url[2] = HostTail THEN <<url[1], url[2]>> ELSE <<url[1]>>

\* the URL an href stands for, resolved against the homepage
Resolved(raw) ==
  IF raw[1] = "javascript:" THEN NullUrl
  ELSE IF raw[1] = "/" THEN <<Site>> \o raw ELSE raw

\* the same-site episode-shaped links of a document
EpisodeLinks(doc) ==
  { Resolved(doc[i]) : i \in { j \in DOMAIN doc :
       LET u == Resolved(doc[j]) IN
       /\ u # NullUrl
       /\ Origin(u) = <<Site>>
       /\ \E k \in 1..(Len(u) - 1) : u[k] = "/" /\ u[k + 1] = "episode/" } }

\* C23: extraction followed by the caller's relevance filter yields one card
\* for each distinct same-site episode link and no other card, with or
\* without an episode code in the link.
FilterYieldsEpisodeLinks ==
  Returned("extract") =>
     LET cards == probe.out.episodeCards IN
     /\ Len(cards) = Cardinality(EpisodeLinks(probe.doc))
     /\ { cards[i].url : i \in DOMAIN cards } = EpisodeLinks(probe.doc)
     /\ \A i \in DOMAIN cards : cards[i].url # NullUrl

\* C29: the cards of one pass have distinct URLs, each is the card of the
\* first anchor with its URL, and they stand in the order of those anchors.
CardsAreFirstOccurrences ==
  Returned("extract") =>
     LET cards == probe.out.allCards IN
     /\ \A i, j \in DOMAIN cards : cards[i].url = cards[j].url => i = j
     /\ \A i \in DOMAIN cards :
          /\ Resolved(probe.doc[cards[i].anchor]) = cards[i].url
          /\ \A k \in 1..(cards[i].anchor - 1) : Resolved(probe.doc[k]) # cards[i].url
     /\ \A i, j \in DOMAIN cards : i < j => cards[i].anchor < cards[j].anchor

\* A URL linked twice, first relative and then absolute, came back as one
\* card, that of the first anchor, after the card of another link.
RepeatedLinkKeptOnce ==
  /\ Returned("extract")
  /\ Len(probe.doc) = 3
  /\ probe.doc[2] = <<"/", "episode/", "a", CodePiece>>
  /\ probe.doc[3] = <<Site, "/", "episode/", "a", CodePiece>>
  /\ Len(probe.out.allCards) = 2
  /\ probe.out.allCards[2].anchor = 2

\* C30: every card the extractor returns has the origin of the homepage.
CardsAreSameOrigin ==
  Returned("extract") =>
     \A i \in DOMAIN probe.out.allCards : Origin(probe.out.allCards[i].url) = <<Site>>

\* a breadcrumb gives a title and a series link the caller can use
Complete(c, caller) == c.present /\ c.title # <<>> /\ (caller = "scraper" => c.valid)

\* C27: the identity is that of the primary breadcrumb when it is complete,
\* else that of the secondary breadcrumb when it is complete, else the one
\* derived from the URL; the og:title is the title only when none of these
\* gave one.
SeriesResolvedInOrder ==
  Returned("resolve") /\ ~probe.out.null =>
     LET page == probe.page
         out == probe.out
     IN
     /\ Complete(page.nav, probe.caller) =>
          out.title = <<"nav", "title">> /\ out.link = <<"nav", "link">>
     /\ ~Complete(page.nav, probe.caller) /\ Complete(page.div, probe.caller) =>
          out.title = <<"div", "title">> /\ out.link = <<"div", "link">>
     /\ ~Complete(page.nav, probe.caller) /\ ~Complete(page.div, probe.caller) =>
          /\ out.link \in {<<"url", "link">>, <<>>}
          /\ out.title \in {<<"url", "title">>, <<"og", "title">>, <<>>}
          /\ out.title = <<"og", "title">> => page.path[Len(page.path)] = <<CodePiece>>
     /\ out.title = <<"og", "title">> => probe.caller = "scraper" /\ page.og # <<>>

\* The scraper resolved a page whose primary breadcrumb lacks its title and
\* whose secondary breadcrumb is complete.
SecondaryBreadcrumbUsed ==
  /\ Returned("resolve")
  /\ probe.caller = "scraper"
  /\ probe.page.nav.present /\ probe.page.nav.valid /\ probe.page.nav.title = <<>>
  /\ ~probe.out.null
  /\ probe.out.title = <<"div", "title">>
  /\ probe.out.link = <<"div", "link">>

\* C24: without an API key, with a search that rejects or finds nothing, or
\* with a details request that fails, enrichSeriesWithTMDB returns the series
\* data it was given and throws nothing.
EnrichmentDegradesToNone ==
  Returned("enrich") /\ (~probe.apiKey \/ probe.search # "found" \/ probe.details = Threw) =>
     probe.out = [threw |-> FALSE, series |-> probe.series]

\* With a key configured, the search rejected and the series came back as given.
SearchFailedSeriesUnchanged ==
  /\ Returned("enrich")
  /\ probe.apiKey
  /\ probe.search = "rejects"
  /\ probe.out = [threw |-> FALSE, series |-> probe.series]

\* C21: an ingestion that ends because no series identity was resolved has
\* made two steps, its begin and its return from the detail page, and neither
\* changes a row of series, episodes or latest_episodes.
UnresolvedWritesNothing ==
  [][/\ ledger'.returned.result = "unresolved" =>
          /\ store' = store
          /\ \E w \in Workers : workers[w].pc = "detail" /\ workers'[w].pc = "idle"
     /\ \A w \in Workers : workers[w].pc = "idle" /\ workers'[w].pc # "idle" =>
          workers'[w].pc = "detail" /\ store' = store]_vars

\* An ingestion has returned unresolved over a store that holds an episode.
UnresolvedOverFilledStore ==
  /\ ledger.returned.result = "unresolved"
  /\ ledger.ingestions >= 2
  /\ DOMAIN store.episodes # {}
  /\ store.latest # <<>>

\* C31: within one cycle cards are processed one at a time: a card under way
\* stays the cycle's card until scrapeEpisode has returned, the inter-card
\* delay follows every return, and the next card, one of those still to
\* visit, starts only when the delay is over.
CardsOneAtATime ==
  [][\A ch \in Chains :
       /\ chains[ch].pc = "scrape" =>
            /\ chains'[ch].pc \in {"scrape", "cardDelay"}
            /\ chains'[ch].cur = chains[ch].cur
            /\ chains'[ch].rest = chains[ch].rest
            /\ chains'[ch].pc = "cardDelay" => lastEvent'.result \in {"row", "null"}
       /\ chains[ch].pc = "cardDelay" /\ chains'[ch].pc = "scrape" =>
            /\ chains'[ch].cur # chains[ch].cur
            /\ \E k \in DOMAIN chains[ch].rest : chains'[ch].cur = chains[ch].rest[k]
       /\ chains[ch].pc # "scrape" /\ chains'[ch].pc = "scrape" =>
            chains[ch].pc \in {"fetchHome", "cardDelay"}]_vars

\* The first card of a cycle has been stored, its delay is pending and the
\* second card waits.
FirstCardDoneSecondWaiting ==
  /\ lastEvent.result = "row"
  /\ \E ch \in Chains :
       /\ chains[ch].pc = "cardDelay"
       /\ chains[ch].cur = 1
       /\ chains[ch].rest = <<2>>
       /\ createEpisodeKey(2) \notin processedEpisodes

\* C32: processing a card whose EpisodeRecord was found in storage, without
\* force, changes nothing in the latest window: no entry is inserted, none
\* moves.
ReprocessingLeavesLatestWindow ==
  [][\A w \in Workers :
       /\ workers[w].pc # "idle"
       /\ workers[w].existing
       /\ ~workers[w].force
       /\ workers'[w] # workers[w]
       => store'.latest = store.latest]_vars

\* C33: scrapeEpisode that finds the episode's record returns it and leaves
\* the store as it is when force is false, and goes on to write when force is
\* true; a stored record is never removed, and it changes only in the
\* upsert of a forced call, which puts that call's page in its place; the
\* latest window changes only in the add and prune steps that follow a write.
ForceGatesOverwrite ==
  [][/\ \A w \in Workers :
          LET wk == workers[w] IN
          /\ wk.pc = "getEpisode"
          /\ wk.kind # "standalone"
          /\ workers'[w] # wk
          /\ EpisodeRow(wk.card) \in DOMAIN store.episodes
          => /\ store' = store
             /\ IF wk.force
                THEN workers'[w].pc = "saveEpisode"
                ELSE /\ workers'[w].pc = "idle"
                     /\ ledger'.returned.result = "existing"
                     /\ ledger'.returned.kind = wk.kind
                     /\ ledger'.returned.card = wk.card
     /\ \A k \in DOMAIN store.episodes :
          /\ k \in DOMAIN store'.episodes
          /\ store'.episodes[k] # store.episodes[k] =>
               \E w \in Workers :
                  /\ workers[w].force
                  /\ workers[w].pc = "saveEpisode"
                  /\ EpisodeRow(workers[w].card) = k
                  /\ store'.episodes[k] = workers[w].page
     /\ store'.latest # store.latest =>
          \E w \in Workers : workers[w].pc \in {"addLatest", "delete"}]_vars

\* POST /api/scrape without force has returned the record of an episode that
\* the latest window no longer holds.
ApiReturnedExistingRecord ==
  /\ ledger.returned.kind = "api"
  /\ ledger.returned.result = "existing"
  /\ EpisodeRow(ledger.returned.card) \in DOMAIN store.episodes
  /\ store.latest # <<>>
  /\ \A i \in DOMAIN store.latest : store.latest[i] # EpisodeRow(ledger.returned.card)

\* C34: a cycle starts a card (its detail-page fetch, then its gateway calls)
\* only if the card's key is not in the Dedup Cache at that moment, and no
\* step of the scheduler removes a key from the Dedup Cache.
CachedCardNeverRestarted ==
  [][/\ processedEpisodes \subseteq processedEpisodes'
     /\ \A ch \in Chains :
          chains[ch].pc # "scrape" /\ chains'[ch].pc = "scrape" =>
             /\ createEpisodeKey(chains'[ch].cur) \notin processedEpisodes
             /\ createEpisodeKey(chains'[ch].cur) \notin processedEpisodes']_vars

\* A later cycle (its chain armed the timer that began it) runs with the first
\* card cached and has started the second card, which is not.
LaterCycleStartedUncachedCard ==
  /\ lastEvent = Quiet
  /\ createEpisodeKey(1) \in processedEpisodes
  /\ createEpisodeKey(2) \notin processedEpisodes
  /\ \E ch \in pollTimeout :
       /\ chains[ch].pc = "scrape"
       /\ chains[ch].cur = 2
       /\ \A o \in Chains \ {ch} : chains[o].pc = "free"

\* C35: every stored EpisodeRecord has a SeriesRecord for its series_slug,
\* also after an ingestion whose series creation failed.
EpisodesHaveSeries ==
  \A k \in DOMAIN store.episodes : k[1] \in DOMAIN store.series

\* An ingestion has ended in a failed series creation: its series has no
\* record and its episode none, while another series has both.
SeriesCreationFailedNothingStored ==
  /\ ledger.returned.result \in {"null", "refused"}
  /\ SlugOf(ledger.returned.card) \notin DOMAIN store.series
  /\ EpisodeRow(ledger.returned.card) \notin DOMAIN store.episodes
  /\ DOMAIN store.episodes # {}

\* C36: the quarantine set loses a proxy only in a getNextProxy() that finds
\* every proxy of the list quarantined, and then it loses all of them; a
\* quarantined proxy is returned by getNextProxy() only in such a call.
QuarantineLeftOnlyByReset ==
  [][/\ ~(failedProxies \subseteq failedProxies') =>
          /\ AsksForProxy
          /\ proxies # <<>>
          /\ \A j \in DOMAIN proxies : proxies[j] \in failedProxies
          /\ failedProxies' = {}
     /\ AsksForProxy /\ fetch'.picked \in failedProxies =>
          \A j \in DOMAIN proxies : proxies[j] \in failedProxies]_vars

\* The first attempt of a call has succeeded through a proxy while a proxy
\* that failed in an earlier call is still quarantined.
SucceededBesideQuarantined ==
  /\ fetch.pc = "returned"
  /\ fetch.attempts = 1
  /\ fetch.proxy # NoProxy
  /\ failedProxies # {}
  /\ fetch.proxy \notin failedProxies

\* C37: after any sequence of getNextProxy() and markProxyAsFailed() calls on
\* a non-empty list the cursor is an index of the list, the quarantine set
\* holds only proxies of the list, and the list is the one configured.
PoolStaysWellFormed ==
  /\ [](proxies # <<>> =>
          /\ currentIndex \in 0..(Len(proxies) - 1)
          /\ failedProxies \subseteq Range(proxies))
  /\ [][proxies' = proxies]_vars

\* The cursor is back at the head of a two-proxy list after its last proxy
\* was returned, a proxy being quarantined.
CursorWrappedWithQuarantine ==
  /\ Len(proxies) = 2
  /\ currentIndex = 0
  /\ fetch.picked = proxies[2]
  /\ fetch.poolBefore.index = 1
  /\ failedProxies # {}
====
